---- MODULE Spec2Model ----
(***************************************************************************)
(* A model of src/graphql/schemas/ParseClass.js: the per-class GraphQL     *)
(* type builder (loadClass, ParseClass and its memoizers, the field        *)
(* mappers and the field thunks) and the resolvers loadClass attaches to   *)
(* the root operations.                                                    *)
(*                                                                         *)
(* Objects that JavaScript compares by reference (ParseClass instances,    *)
(* GraphQL type objects, the bundles loadClass returns) live in the        *)
(* sequences parseClasses, types and bundles: an object's identity is its  *)
(* index, and every `new` or object literal of the source appends.         *)
(* Class names are sequences of tokens, so that indexOf('_') === 0 and     *)
(* slice(1) are Head and Tail.                                             *)
(***************************************************************************)
EXTENDS Integers, Sequences, FiniteSets, TLC

VARIABLES
  cache,         \* typesCache: class name -> index of its ParseClass, 0 when absent
  parseClasses,  \* every ParseClass instance constructed so far
  types,         \* every GraphQL type object constructed so far
  bundles,       \* every object literal returned by loadClass (line 277)
  warnings,      \* number of console.warn diagnostics printed
  calls,         \* the top-level loadClass calls made so far and what each returned
  probe,         \* SpecMappers: the field definition drawn and the mappers' results
  store,         \* the storage backend: objectId -> the stored object
  inv,           \* the resolver invocations started so far, each with its position
  context        \* the request context shared by the resolvers of one request

typeVars == <<cache, parseClasses, types, bundles, warnings, calls, probe>>
runVars == <<store, inv, context>>
vars == <<typeVars, runVars>>

----------------------------------------------------------------------------
(* Bounds *)

MaxCalls == 2        \* top-level loadClass calls (a call made by a thunk is not counted)
MaxThunks == 2       \* field thunks the schema library evaluates
MaxInvocations == 2  \* resolver invocations in flight or finished
MaxRows == 150       \* rows the backend returns to one find
GidBase == 1000      \* local ids are below GidBase (the global-id encoding)

----------------------------------------------------------------------------
(* The backend schemas: className -> { fields }, plus __classNames *)

ClsA == <<"A">>
ClsB == <<"B">>
ClsUser == <<"_", "User">>
ClsMissing == <<"Missing">>
NoClass == <<>>

ClassNames == {ClsA, ClsB, ClsUser, ClsMissing}

Fld(n, t, c) == [name |-> n, type |-> t, targetClass |-> c]

\* S1: A and B point to each other; B also has two Relations to A.
\* S2: a reloaded schema in which A has other fields and B is gone.
SchemaIds == {"S1", "S2"}

SchemaHas(s, cn) ==
  IF s = "S1" THEN cn \in {ClsA, ClsB, ClsUser} ELSE cn \in {ClsA}

SchemaFields(s, cn) ==
  IF s = "S1"
  THEN CASE cn = ClsA -> << Fld("objectId", "String", NoClass),
                            Fld("name", "String", NoClass),
                            Fld("b", "Pointer", ClsB) >>
         [] cn = ClsB -> << Fld("objectId", "String", NoClass),
                            Fld("a", "Pointer", ClsA),
                            Fld("as", "Relation", ClsA),
                            Fld("more", "Relation", ClsA),
                            Fld("loc", "GeoPoint", NoClass) >>
         [] cn = ClsUser -> << Fld("objectId", "String", NoClass),
                               Fld("username", "String", NoClass) >>
         [] OTHER -> << >>
  ELSE CASE cn = ClsA -> << Fld("objectId", "String", NoClass),
                            Fld("title", "String", NoClass) >>
         [] OTHER -> << >>

----------------------------------------------------------------------------
(* GraphQL type expressions and field descriptors *)

TypeExpr(k, ref, of) == [k |-> k, ref |-> ref, of |-> of]

NonNullID == TypeExpr("NonNull", 0, "ID")          \* new GraphQLNonNull(GraphQLID)
Scalar(s) == TypeExpr("Scalar", 0, s)              \* GraphQLID, GraphQLString, PageInfo
Named(t) == TypeExpr("Named", t, "")               \* the type object types[t]
ListOf(t) == TypeExpr("List", t, "")               \* new GraphQLList(types[t])
Undefined == TypeExpr("undefined", 0, "")

Truthy(te) == te.k # "undefined"

\* ../types: the primitive mappers for the output, input and filter contexts.
\* Relation fields are not settable or filterable: the mapper returns nothing.
type(field) == TypeExpr("type", 0, field.type)

inputType(field) ==
  IF field.type = "Relation" THEN Undefined
  ELSE TypeExpr("inputType", 0, field.type)

queryType(field) ==
  IF field.type = "Relation" THEN Undefined
  ELSE TypeExpr("queryType", 0, field.type)

Desc(n, te, res, key, b) ==
  [name |-> n, type |-> te, resolve |-> res, key |-> key, bundle |-> b]

NoDesc == Desc("", Undefined, "", "", 0)

EmptyMap == [n \in {} |-> NoDesc]

\* The heap the synchronous code works on, threaded through every call.
Heap == [cache |-> cache, parseClasses |-> parseClasses, types |-> types,
         bundles |-> bundles, warnings |-> warnings]

Ret(h, v) == [h |-> h, v |-> v]

----------------------------------------------------------------------------
(* Sequencing: Bind(v, LAMBDA x : e) is `const x = v; e`, with v evaluated  *)
(* once.                                                                   *)

The(S) == CHOOSE x \in S : TRUE

Bind(v, F(_)) == The({ F(x) : x \in {v} })

----------------------------------------------------------------------------
(* typesCache and the ParseClass constructor *)

DisplayNameOf(className) ==
  IF Head(className) = "_" THEN Tail(className) ELSE className

\* new ParseClass(className, schema): warns when schema[className] is missing.
ParseClassCtor(H, className, schema) ==
  Bind([className |-> className,
        displayName |-> DisplayNameOf(className),
        schema |-> schema,
        hasClass |-> SchemaHas(schema, className),
        objectType |-> 0, updateInputObjectType |-> 0,
        inputObjectType |-> 0, queryInputObjectType |-> 0,
        queryResultObjectType |-> 0, mutationResultObjectType |-> 0],
       LAMBDA p :
         Ret([H EXCEPT !.parseClasses = Append(@, p),
                       !.warnings = IF p.hasClass THEN @ ELSE @ + 1],
             Len(H.parseClasses) + 1))

\* getOrElse(key, factory) of ../typesCache, with the factory of line 155.
getOrElse(H, key, schema) ==
  IF H.cache[key] # 0
  THEN Ret(H, H.cache[key])
  ELSE Bind(ParseClassCtor(H, key, schema), LAMBDA r :
         Ret([r.h EXCEPT !.cache[key] = r.v], r.v))

----------------------------------------------------------------------------
(* The type configurations and their memoizers *)

TypeObj(name, ctor, config, owner, fields, map) ==
  [name |-> name, ctor |-> ctor, config |-> config, owner |-> owner,
   fields |-> fields, map |-> map]

\* new GraphQLObjectType(config) / new GraphQLInputObjectType(config): the
\* library keeps a fields thunk unevaluated until the fields are asked for.
NewType(H, t) == Ret([H EXCEPT !.types = Append(@, t)], Len(H.types) + 1)

graphQLConfig(H, p) ==
  TypeObj(H.parseClasses[p].displayName, "GraphQLObjectType", "object", p,
          "thunk", EmptyMap)

graphQLQueryConfig(H, p) ==
  TypeObj(H.parseClasses[p].displayName \o <<"Query">>,
          "GraphQLInputObjectType", "query", p, "thunk", EmptyMap)

graphQLInputConfig(H, p) ==
  TypeObj(<<"Add">> \o H.parseClasses[p].displayName \o <<"Input">>,
          "GraphQLInputObjectType", "input", p, "thunk", EmptyMap)

graphQLUpdateInputConfig(H, p) ==
  TypeObj(<<"Update">> \o H.parseClasses[p].displayName \o <<"Input">>,
          "GraphQLInputObjectType", "update", p, "thunk", EmptyMap)

\* graphQLObjectType without the guard of line 454.
graphQLObjectType_NoMemo(H, p) ==
  Bind(NewType(H, graphQLConfig(H, p)), LAMBDA r :
    Ret([r.h EXCEPT !.parseClasses[p].objectType = r.v], r.v))

graphQLObjectType(H, p) ==
  IF H.parseClasses[p].objectType = 0
  THEN Bind(NewType(H, graphQLConfig(H, p)), LAMBDA r :
         Ret([r.h EXCEPT !.parseClasses[p].objectType = r.v], r.v))
  ELSE Ret(H, H.parseClasses[p].objectType)

graphQLUpdateInputObjectType(H, p) ==
  IF H.parseClasses[p].updateInputObjectType = 0
  THEN Bind(NewType(H, graphQLUpdateInputConfig(H, p)), LAMBDA r :
         Ret([r.h EXCEPT !.parseClasses[p].updateInputObjectType = r.v], r.v))
  ELSE Ret(H, H.parseClasses[p].updateInputObjectType)

graphQLInputObjectType(H, p) ==
  IF H.parseClasses[p].inputObjectType = 0
  THEN Bind(NewType(H, graphQLInputConfig(H, p)), LAMBDA r :
         Ret([r.h EXCEPT !.parseClasses[p].inputObjectType = r.v], r.v))
  ELSE Ret(H, H.parseClasses[p].inputObjectType)

graphQLQueryInputObjectType(H, p) ==
  IF H.parseClasses[p].queryInputObjectType = 0
  THEN Bind(NewType(H, graphQLQueryConfig(H, p)), LAMBDA r :
         Ret([r.h EXCEPT !.parseClasses[p].queryInputObjectType = r.v], r.v))
  ELSE Ret(H, H.parseClasses[p].queryInputObjectType)

\* The config is built (and with it the Edge type) only when the memo is empty.
graphQLQueryResultConfig(H, p) ==
  Bind(graphQLObjectType(H, p), LAMBDA o :
  Bind(NewType(o.h, TypeObj(H.parseClasses[p].displayName \o <<"Edge">>,
                            "GraphQLObjectType", "edge", p, "thunk", EmptyMap)),
       LAMBDA e :
    Ret(e.h,
        TypeObj(H.parseClasses[p].displayName \o <<"QueryConnection">>,
                "GraphQLObjectType", "queryResult", p, "value",
                ("nodes" :> Desc("nodes", ListOf(o.v), "", "", 0))
                @@ ("edges" :> Desc("edges", ListOf(e.v), "", "", 0))
                @@ ("pageInfo" :> Desc("pageInfo", Scalar("PageInfo"), "", "", 0))))))

graphQLMutationResultConfig(H, p) ==
  Bind(graphQLObjectType(H, p), LAMBDA o :
    Ret(o.h,
        TypeObj(H.parseClasses[p].displayName \o <<"MutationCompletePayload">>,
                "GraphQLObjectType", "mutationResult", p, "value",
                ("object" :> Desc("object", Named(o.v), "", "", 0))
                @@ ("clientMutationId" :>
                      Desc("clientMutationId", Scalar("String"), "", "", 0)))))

\* graphQLQueryResultType without the guard of line 488.
graphQLQueryResultType_NoMemo(H, p) ==
  Bind(graphQLQueryResultConfig(H, p), LAMBDA c :
  Bind(NewType(c.h, c.v), LAMBDA r :
    Ret([r.h EXCEPT !.parseClasses[p].queryResultObjectType = r.v], r.v)))

graphQLQueryResultType(H, p) ==
  IF H.parseClasses[p].queryResultObjectType = 0
  THEN Bind(graphQLQueryResultConfig(H, p), LAMBDA c :
       Bind(NewType(c.h, c.v), LAMBDA r :
         Ret([r.h EXCEPT !.parseClasses[p].queryResultObjectType = r.v], r.v)))
  ELSE Ret(H, H.parseClasses[p].queryResultObjectType)

graphQLMutationResultType(H, p) ==
  IF H.parseClasses[p].mutationResultObjectType = 0
  THEN Bind(graphQLMutationResultConfig(H, p), LAMBDA c :
       Bind(NewType(c.h, c.v), LAMBDA r :
         Ret([r.h EXCEPT !.parseClasses[p].mutationResultObjectType = r.v], r.v)))
  ELSE Ret(H, H.parseClasses[p].mutationResultObjectType)

----------------------------------------------------------------------------
(* loadClass *)

\* The find descriptor of lines 175-190: its resolver is the plain class find.
FindDesc(queryResultType) ==
  [type |-> queryResultType, resolve |-> "find", key |-> ""]

DestroyInputFields ==
  ("id" :> Desc("id", Scalar("ID"), "", "", 0))
  @@ ("objectId" :> Desc("objectId", Scalar("ID"), "", "", 0))
  @@ ("clientMutationId" :> Desc("clientMutationId", Scalar("String"), "", "", 0))

loadClass(H, className, schema) ==
  Bind(getOrElse(H, className, schema), LAMBDA c :
  Bind(graphQLObjectType(c.h, c.v), LAMBDA objectType :
  Bind(graphQLInputObjectType(objectType.h, c.v), LAMBDA inputTy :
  Bind(graphQLUpdateInputObjectType(inputTy.h, c.v), LAMBDA updateType :
  Bind(graphQLQueryInputObjectType(updateType.h, c.v), LAMBDA queryTy :
  Bind(graphQLQueryResultType(queryTy.h, c.v), LAMBDA queryResultType :
  Bind(graphQLMutationResultType(queryResultType.h, c.v),
       LAMBDA mutationResultType :
  Bind(NewType(mutationResultType.h,
               TypeObj(<<"Destroy">>
                         \o mutationResultType.h.parseClasses[c.v].displayName
                         \o <<"Input">>,
                       "GraphQLInputObjectType", "destroyInput", c.v,
                       "value", DestroyInputFields)),
       LAMBDA destroyInput :
    Ret([destroyInput.h EXCEPT !.bundles = Append(@,
           [className |-> className,
            schema |-> schema,
            displayName |-> destroyInput.h.parseClasses[c.v].displayName,
            find |-> FindDesc(queryResultType.v),
            destroyInputType |-> destroyInput.v,
            objectType |-> objectType.v,
            inputType |-> inputTy.v,
            updateType |-> updateType.v,
            queryType |-> queryTy.v,
            queryResultType |-> queryResultType.v,
            mutationResultType |-> mutationResultType.v,
            parseClass |-> c.v])],
        Len(destroyInput.h.bundles) + 1)))))))))

----------------------------------------------------------------------------
(* The field mappers *)

handleIdField(fieldName) ==
  IF fieldName = "objectId" \/ fieldName = "id" THEN NonNullID ELSE Undefined

\* a || b
OrElse(a, b) == IF Truthy(a) THEN a ELSE b

\* getRelationField writing its resolver into the find descriptor of the
\* class's first bundle, as if loadClass handed out one bundle per class.
getRelationField_SharedFind(H, fieldName, field, schema) ==
  Bind(loadClass(H, field.targetClass, schema), LAMBDA r :
  Bind(CHOOSE b \in DOMAIN r.h.bundles :
         /\ r.h.bundles[b].className = field.targetClass
         /\ \A c \in DOMAIN r.h.bundles :
              r.h.bundles[c].className = field.targetClass => b <= c,
       LAMBDA b :
    Ret([r.h EXCEPT !.bundles[b].find.resolve = "relatedTo",
                    !.bundles[b].find.key = fieldName],
        Desc("", Named(r.h.bundles[b].find.type), "relatedTo", fieldName, b))))

\* The find descriptor of a fresh loadClass(targetClass) with its resolver
\* replaced by the $relatedTo query on fieldName.
getRelationField(H, fieldName, field, schema) ==
  Bind(loadClass(H, field.targetClass, schema), LAMBDA r :
    Ret([r.h EXCEPT !.bundles[r.v].find.resolve = "relatedTo",
                    !.bundles[r.v].find.key = fieldName],
        Desc("", Named(r.h.bundles[r.v].find.type), "relatedTo", fieldName, r.v)))

\* graphQLField without the Pointer branch of lines 78-89.
graphQLField_NoPointer(H, fieldName, field, schema) ==
  IF field.type = "Relation"
  THEN getRelationField(H, fieldName, field, schema)
  ELSE Ret(H, Desc(fieldName, OrElse(handleIdField(fieldName), type(field)),
                   "", "", 0))

graphQLField(H, fieldName, field, schema) ==
  IF field.type = "Relation"
  THEN getRelationField(H, fieldName, field, schema)
  ELSE IF field.type = "Pointer"
       THEN Bind(loadClass(H, field.targetClass, schema), LAMBDA r :
              Ret(r.h, Desc(fieldName, Named(r.h.bundles[r.v].objectType),
                            "resolvePointer", fieldName, 0)))
       ELSE Ret(H, Desc(fieldName, OrElse(handleIdField(fieldName), type(field)),
                        "", "", 0))

graphQLInputField(fieldName, field) ==
  Bind(OrElse(handleIdField(fieldName), inputType(field)), LAMBDA gQLType :
    IF ~Truthy(gQLType) THEN NoDesc
    ELSE Desc(fieldName, gQLType, "", "", 0))

graphQLQueryField(H, fieldName, field, schema) ==
  Bind(OrElse(handleIdField(fieldName), queryType(field)), LAMBDA gQLType :
    IF ~Truthy(gQLType) THEN Ret(H, NoDesc)
    ELSE IF field.type = "Pointer"
         THEN Bind(loadClass(H, field.targetClass, schema), LAMBDA r :
                Ret(r.h, Desc(fieldName, Named(r.h.bundles[r.v].queryType),
                              "", "", 0)))
         ELSE Ret(H, Desc(fieldName, gQLType, "", "", 0)))

\* mapper(fieldName, field, this.schema) of buildFields, for each of the three
\* mappers the configurations pass.
Mapper(m, H, fieldName, field, schema) ==
  CASE m = "graphQLField" -> graphQLField(H, fieldName, field, schema)
    [] m = "graphQLInputField" -> Ret(H, graphQLInputField(fieldName, field))
    [] m = "graphQLQueryField" -> graphQLQueryField(H, fieldName, field, schema)

reservedFieldNames == {"objectId", "createdAt", "updatedAt"}

\* A field set: "value" with its map, or "undefined" (buildFields returned
\* nothing), or "TypeError" (the thunk threw).
FieldSet(state, map) == [state |-> state, map |-> map]

RECURSIVE Reduce(_, _, _, _, _, _, _)
Reduce(H, fields, i, mapper, filterReserved, schema, memo) ==
  IF i > Len(fields) THEN Ret(H, memo)
  ELSE IF filterReserved /\ fields[i].name \in reservedFieldNames
       THEN Reduce(H, fields, i + 1, mapper, filterReserved, schema, memo)
       ELSE Bind(Mapper(mapper, H, fields[i].name, fields[i], schema), LAMBDA r :
              IF ~Truthy(r.v.type)
              THEN Reduce(r.h, fields, i + 1, mapper, filterReserved, schema, memo)
              ELSE Bind((fields[i].name :> r.v) @@ memo, LAMBDA next :
                     Reduce(r.h, fields, i + 1, mapper, filterReserved, schema,
                            next)))

InitialFields(className, isObject) ==
  (IF isObject THEN ("id" :> Desc("", NonNullID, "", "", 0)) ELSE EmptyMap)
  @@ (IF className = <<"_", "User">>
      THEN ("sessionToken" :> Desc("", Scalar("String"), "", "", 0))
      ELSE EmptyMap)

buildFields(H, p, mapper, filterReserved, isObject) ==
  Bind(H.parseClasses[p], LAMBDA this :
    IF ~this.hasClass
    THEN Ret([H EXCEPT !.warnings = @ + 1], FieldSet("undefined", EmptyMap))
    ELSE Bind(Reduce(H, SchemaFields(this.schema, this.className), 1, mapper,
                     filterReserved, this.schema,
                     InitialFields(this.className, isObject)),
              LAMBDA r : Ret(r.h, FieldSet("value", r.v))))

Without(map, names) == [n \in (DOMAIN map) \ names |-> map[n]]

\* The fields thunk of each configuration (lines 371, 381-386, 396-400,
\* 409-415, 430-433): a property written or deleted on undefined throws.
Thunk(H, t) ==
  Bind(H.types[t], LAMBDA ty :
    CASE ty.config = "object" ->
           buildFields(H, ty.owner, "graphQLField", FALSE, TRUE)
      [] ty.config = "query" ->
           Bind(buildFields(H, ty.owner, "graphQLQueryField", FALSE, FALSE),
                LAMBDA r :
             IF r.v.state = "undefined"
             THEN Ret(r.h, FieldSet("TypeError", EmptyMap))
             ELSE Ret(r.h, FieldSet("value", Without(r.v.map, {"objectId", "id"}))))
      [] ty.config = "input" ->
           Bind(buildFields(H, ty.owner, "graphQLInputField", TRUE, FALSE),
                LAMBDA r :
             IF r.v.state = "undefined"
             THEN Ret(r.h, FieldSet("TypeError", EmptyMap))
             ELSE Ret(r.h, FieldSet("value",
                    ("clientMutationId" :> Desc("", Scalar("String"), "", "", 0))
                    @@ r.v.map)))
      [] ty.config = "update" ->
           Bind(buildFields(H, ty.owner, "graphQLInputField", TRUE, FALSE),
                LAMBDA r :
             IF r.v.state = "undefined"
             THEN Ret(r.h, FieldSet("TypeError", EmptyMap))
             ELSE Ret(r.h, FieldSet("value",
                    ("id" :> Desc("", Scalar("ID"), "", "", 0))
                    @@ ("objectId" :> Desc("", Scalar("ID"), "", "", 0))
                    @@ ("clientMutationId" :> Desc("", Scalar("String"), "", "", 0))
                    @@ r.v.map)))
      [] ty.config = "edge" ->
           Ret(H, FieldSet("value",
                 ("node" :> Desc("", Named(H.parseClasses[ty.owner].objectType),
                                 "", "", 0))
                 @@ ("cursor" :> Desc("", Scalar("String"), "", "", 0)))))

----------------------------------------------------------------------------
(* Schema compilation: the actions *)

SetHeap(H) ==
  /\ cache' = H.cache
  /\ parseClasses' = H.parseClasses
  /\ types' = H.types
  /\ bundles' = H.bundles
  /\ warnings' = H.warnings

Evaluated == {t \in DOMAIN types : types[t].config \in
                {"object", "query", "input", "update", "edge"}
                /\ types[t].fields # "thunk"}

\* A caller (root-field assembly, a test) calls loadClass(className, schema).
LoadClass(className, schema) ==
  /\ Len(calls) < MaxCalls
  /\ \E r \in {loadClass(Heap, className, schema)} :
       /\ SetHeap(r.h)
       /\ calls' = Append(calls, [className |-> className, schema |-> schema,
                                  ret |-> r.v])
  /\ UNCHANGED <<probe, runVars>>

\* The schema library asks type t for its fields for the first time: it runs
\* the thunk once and keeps what it returned.
GetFields(t) ==
  /\ types[t].fields = "thunk"
  /\ Cardinality(Evaluated) < MaxThunks
  /\ \E r \in {Thunk(Heap, t)} :
       SetHeap([r.h EXCEPT !.types[t].fields = r.v.state,
                           !.types[t].map = r.v.map])
  /\ UNCHANGED <<calls, probe, runVars>>

NoProbe == [fieldName |-> "", field |-> Fld("", "", NoClass), out |-> NoDesc,
            in |-> NoDesc, query |-> NoDesc, applied |-> {}]

EmptyHeapInit ==
  /\ cache = [c \in ClassNames |-> 0]
  /\ parseClasses = << >>
  /\ types = << >>
  /\ bundles = << >>
  /\ warnings = 0
  /\ calls = << >>

RunIdle ==
  /\ store = << >>
  /\ inv = << >>
  /\ context = [auth |-> "client", config |-> "config"]

TypesInit == EmptyHeapInit /\ probe = NoProbe /\ RunIdle

\* The calls drawn: every class name against S1, and A against the reloaded S2.
LoadInputs == {<<cn, "S1">> : cn \in ClassNames} \cup {<<ClsA, "S2">>}

TypesNext ==
  \/ \E in \in LoadInputs : LoadClass(in[1], in[2])
  \/ \E t \in DOMAIN types : GetFields(t)

SpecTypes == TypesInit /\ [][TypesNext]_vars

----------------------------------------------------------------------------
(* The field mappers on their own: one field definition, drawn at Init, is  *)
(* handed to each of the three mappers against schema S1.                   *)

ProbeNames == {"objectId", "id", "name"}

ProbeKinds ==
  {<<k, NoClass>> : k \in {"String", "Number", "Boolean", "Date", "GeoPoint"}}
  \cup {<<k, c>> : k \in {"Pointer", "Relation"}, c \in {ClsA, ClsB}}

MappersInit ==
  /\ EmptyHeapInit
  /\ RunIdle
  /\ probe \in {[fieldName |-> n, field |-> Fld(n, kc[1], kc[2]), out |-> NoDesc,
                 in |-> NoDesc, query |-> NoDesc, applied |-> {}] :
                n \in ProbeNames, kc \in ProbeKinds}

ApplyGraphQLField ==
  /\ "out" \notin probe.applied
  /\ \E r \in {graphQLField(Heap, probe.fieldName, probe.field, "S1")} :
       /\ SetHeap(r.h)
       /\ probe' = [probe EXCEPT !.out = r.v, !.applied = @ \cup {"out"}]
  /\ UNCHANGED <<calls, runVars>>

ApplyGraphQLInputField ==
  /\ "in" \notin probe.applied
  /\ probe' = [probe EXCEPT !.in = graphQLInputField(probe.fieldName, probe.field),
                            !.applied = @ \cup {"in"}]
  /\ UNCHANGED <<cache, parseClasses, types, bundles, warnings, calls, runVars>>

ApplyGraphQLQueryField ==
  /\ "query" \notin probe.applied
  /\ \E r \in {graphQLQueryField(Heap, probe.fieldName, probe.field, "S1")} :
       /\ SetHeap(r.h)
       /\ probe' = [probe EXCEPT !.query = r.v, !.applied = @ \cup {"query"}]
  /\ UNCHANGED <<calls, runVars>>

MappersNext ==
  \/ ApplyGraphQLField
  \/ ApplyGraphQLInputField
  \/ ApplyGraphQLQueryField

SpecMappers == MappersInit /\ [][MappersNext]_vars

----------------------------------------------------------------------------
(* Values, inputs and the collaborators of ../execute, ../../Auth and rest  *)

\* A JavaScript value: a scalar (0 is the empty string), an object such as
\* {objectId: v} with its __type tag, null, or undefined.
V(kind, v, ty) == [kind |-> kind, v |-> v, type |-> ty]
VStr(v) == V("scalar", v, "")
VObj(v) == V("object", v, "")
VNull == V("null", 0, "")
NoVal == V("undefined", 0, "")

Falsy(x) == x.kind \in {"undefined", "null"} \/ (x.kind = "scalar" /\ x.v = 0)

\* input[key], and input after `delete input[key]`
Get(input, key) == IF key \in DOMAIN input THEN input[key] ELSE NoVal
Delete(input, key) == [k \in (DOMAIN input) \ {key} |-> input[k]]

EmptyInput == [k \in {} |-> NoVal]

ClassIndex(className) ==
  CASE className = ClsA -> 1 [] className = ClsB -> 2
    [] className = ClsUser -> 3 [] OTHER -> 4

ClassAt(i) ==
  CASE i = 1 -> ClsA [] i = 2 -> ClsB [] i = 3 -> ClsUser [] OTHER -> ClsMissing

\* ../execute: the global id of (className, objectId) and its decoding.
getGloballyUniqueId(className, objectId) ==
  ClassIndex(className) * GidBase + objectId

parseID(id) == [className |-> ClassAt(id \div GidBase), objectId |-> id % GidBase]

NoObject == [className |-> NoClass, objectId |-> 0, name |-> 0, version |-> 0]

\* What a get of (className, objectId) reads from the store.
Exists(st, className, objectId) ==
  /\ objectId \in DOMAIN st
  /\ st[objectId].exists
  /\ st[objectId].className = className

Snapshot(st, objectId) ==
  [className |-> st[objectId].className, objectId |-> objectId,
   name |-> st[objectId].name, version |-> st[objectId].version]

NoResp == [objectId |-> 0, sessionToken |-> 0, object |-> NoObject,
           rows |-> << >>, auth |-> "", error |-> ""]

\* A call into a collaborator, pending until the collaborator settles it.
Call(fn, className, objectId, payload, auth, args) ==
  [fn |-> fn, className |-> className, objectId |-> objectId,
   payload |-> payload, auth |-> auth, args |-> args, status |-> "pending",
   resp |-> NoResp]

\* The pointer of lines 39-43, as the $relatedTo query holds it.
Pointer(className, objectId) ==
  [type |-> "Pointer", className |-> className, objectId |-> objectId]

NoPointer == [type |-> "", className |-> NoClass, objectId |-> 0]

\* args of a find, with the override query (its $relatedTo object and key).
NoArgs == [first |-> 0, redirectClassNameForKey |-> "", relatedTo |-> NoPointer,
           key |-> ""]

NoOut == [status |-> "none", error |-> "", object |-> NoObject,
          clientMutationId |-> NoVal, nodes |-> << >>, cap |-> 0]

\* One invocation of a resolver: its arguments, its locals and its position.
Invocation(op, className, input, args, parent) ==
  [op |-> op, className |-> className, input0 |-> input, input |-> input,
   args |-> args, parent |-> parent, pc |-> "running", objectId |-> 0,
   clientMutationId |-> NoVal, auth |-> "", calls |-> << >>, out |-> NoOut]

Throw(r, error) ==
  [r EXCEPT !.pc = "failed", !.out.status = "error", !.out.error = error]

Await(r, call) == [r EXCEPT !.pc = "await", !.calls = Append(@, call)]

LastCall(r) == r.calls[Len(r.calls)]

MinOf(a, b) == IF a < b THEN a ELSE b

\* connectionResultsArray(results, args, maxPageSize) of ../execute: the page
\* is the requested size, capped at maxPageSize.
connectionResultsArray(results, args, maxPageSize) ==
  [nodes |-> SubSeq(results, 1,
               MinOf(Len(results),
                     IF args.first > 0 THEN MinOf(args.first, maxPageSize)
                     ELSE maxPageSize)),
   cap |-> maxPageSize]

----------------------------------------------------------------------------
(* transformInput and getObjectId *)

FieldTypeOf(schema, className, key) ==
  IF \E k \in DOMAIN SchemaFields(schema, className) :
       SchemaFields(schema, className)[k].name = key
  THEN (CHOOSE f \in {SchemaFields(schema, className)[k] :
                        k \in DOMAIN SchemaFields(schema, className)} :
          f.name = key).type
  ELSE ""

TargetClassOf(schema, className, key) ==
  IF \E k \in DOMAIN SchemaFields(schema, className) :
       SchemaFields(schema, className)[k].name = key
  THEN (CHOOSE f \in {SchemaFields(schema, className)[k] :
                        k \in DOMAIN SchemaFields(schema, className)} :
          f.name = key).targetClass
  ELSE NoClass

\* Writing value.__type throws when the value is null, undefined or (the
\* module is strict code) a primitive.
transformInput(input, schema, className) ==
  IF ~SchemaHas(schema, className)
  THEN [threw |-> TRUE, input |-> input]
  ELSE IF \E key \in DOMAIN input :
            /\ FieldTypeOf(schema, className, key) \in {"Pointer", "GeoPoint"}
            /\ input[key].kind # "object"
       THEN [threw |-> TRUE, input |-> input]
       ELSE [threw |-> FALSE,
             input |-> [key \in DOMAIN input |->
                          IF FieldTypeOf(schema, className, key)
                               \in {"Pointer", "GeoPoint"}
                          THEN [input[key] EXCEPT
                                  !.type = FieldTypeOf(schema, className, key)]
                          ELSE input[key]]]

\* getObjectId without the check of lines 140-142.
getObjectId_NoThrow(input) ==
  IF ~Falsy(Get(input, "objectId"))
  THEN [threw |-> FALSE, objectId |-> input["objectId"].v,
        input |-> Delete(input, "objectId")]
  ELSE [threw |-> FALSE, objectId |-> parseID(Get(input, "id").v).objectId,
        input |-> Delete(input, "id")]

getObjectId(input) ==
  IF Falsy(Get(input, "id")) /\ Falsy(Get(input, "objectId"))
  THEN [threw |-> TRUE, objectId |-> 0, input |-> input]
  ELSE IF ~Falsy(Get(input, "objectId"))
       THEN [threw |-> FALSE, objectId |-> input["objectId"].v,
             input |-> Delete(input, "objectId")]
       ELSE [threw |-> FALSE, objectId |-> parseID(input["id"].v).objectId,
             input |-> Delete(input, "id")]

MissingId == "id or objectId are required"

----------------------------------------------------------------------------
(* The resolvers loadClass attaches, as the code between two awaits:        *)
(* xStart is the code up to the first await, xResume the code that runs     *)
(* when the awaited call has settled, up to the next await or the return.   *)
(* className and schema are the closure's.                                  *)

PageCap == 100

NoRow == [className |-> NoClass, objectId |-> 0, id |-> 0]

Reject(r) == Throw(r, LastCall(r).resp.error)

Return(r, object, clientMutationId) ==
  [r EXCEPT !.pc = "done", !.out.status = "ok", !.out.object = object,
            !.out.clientMutationId = clientMutationId]

ReturnConnection(r, connection) ==
  [r EXCEPT !.pc = "done", !.out.status = "ok",
            !.out.nodes = connection.nodes, !.out.cap = connection.cap]

\* get.resolve
getStart(ctx, className, objectId) ==
  Await([Invocation("get", className, EmptyInput, NoArgs, NoObject)
           EXCEPT !.objectId = objectId],
        Call("runGet", className, objectId, EmptyInput, ctx.auth, NoArgs))

getResume(ctx, r) ==
  IF LastCall(r).status = "error" THEN Reject(r)
  ELSE Return(r, LastCall(r).resp.object, NoVal)

\* find.resolve
findStart(ctx, className, args) ==
  Await(Invocation("find", className, EmptyInput, args, NoObject),
        Call("runFind", className, 0, EmptyInput, ctx.auth, args))

\* find.resolve capping the page at the requested size.
findResume_CapFromArgs(ctx, r) ==
  IF LastCall(r).status = "error" THEN Reject(r)
  ELSE ReturnConnection(r, connectionResultsArray(LastCall(r).resp.rows, r.args,
                                                  IF r.args.first > 0
                                                  THEN r.args.first ELSE PageCap))

findResume(ctx, r) ==
  IF LastCall(r).status = "error" THEN Reject(r)
  ELSE ReturnConnection(r, connectionResultsArray(LastCall(r).resp.rows, r.args,
                                                  PageCap))

\* The relation resolver without line 47: no redirect marker is set.
relationStart_NoRedirect(ctx, parent, args, fieldName) ==
  Bind([args EXCEPT !.relatedTo = Pointer(parent.className, parent.objectId),
                    !.key = fieldName],
       LAMBDA a :
         Await(Invocation("relation", parent.className, EmptyInput, a, parent),
               Call("runFind", parent.className, 0, EmptyInput, ctx.auth, a)))

\* The resolver getRelationField installs for the Relation field fieldName.
relationStart(ctx, parent, args, fieldName) ==
  Bind([args EXCEPT !.redirectClassNameForKey = fieldName,
                    !.relatedTo = Pointer(parent.className, parent.objectId),
                    !.key = fieldName],
       LAMBDA a :
         Await(Invocation("relation", parent.className, EmptyInput, a, parent),
               Call("runFind", parent.className, 0, EmptyInput, ctx.auth, a)))

relationResume(ctx, r) ==
  IF LastCall(r).status = "error" THEN Reject(r)
  ELSE ReturnConnection(r,
         connectionResultsArray(
           [k \in DOMAIN LastCall(r).resp.rows |->
              [LastCall(r).resp.rows[k] EXCEPT
                 !.id = getGloballyUniqueId(LastCall(r).resp.rows[k].className,
                                            LastCall(r).resp.rows[k].objectId)]],
           r.args, PageCap))

\* create.resolve forwarding its input without removing clientMutationId.
createStart_ForwardToken(ctx, className, schema, input) ==
  Bind(transformInput(input, schema, className), LAMBDA t :
    IF t.threw
    THEN Throw(Invocation("create", className, input, NoArgs, NoObject),
               "TypeError")
    ELSE Await([Invocation("create", className, input, NoArgs, NoObject)
                  EXCEPT !.input = t.input,
                         !.clientMutationId = Get(t.input, "clientMutationId"),
                         !.auth = ctx.auth],
               Call("rest.create", className, 0, t.input, ctx.auth, NoArgs)))

\* create.resolve
createStart(ctx, className, schema, input) ==
  Bind(transformInput(input, schema, className), LAMBDA t :
    IF t.threw
    THEN Throw(Invocation("create", className, input, NoArgs, NoObject),
               "TypeError")
    ELSE Await([Invocation("create", className, input, NoArgs, NoObject)
                  EXCEPT !.input = Delete(t.input, "clientMutationId"),
                         !.clientMutationId = Get(t.input, "clientMutationId"),
                         !.auth = ctx.auth],
               Call("rest.create", className, 0,
                    Delete(t.input, "clientMutationId"), ctx.auth, NoArgs)))

\* create.resolve answering with its input instead of the re-fetched object.
createResume_Echo(ctx, r) ==
  IF LastCall(r).status = "error" THEN Reject(r)
  ELSE Return(r, [className |-> r.className,
                  objectId |-> LastCall(r).resp.objectId,
                  name |-> Get(r.input, "name").v, version |-> 1],
              r.clientMutationId)

createResume(ctx, r) ==
  IF LastCall(r).status = "error" THEN Reject(r)
  ELSE CASE LastCall(r).fn = "rest.create" ->
              IF r.className = <<"_", "User">>
                 /\ LastCall(r).resp.sessionToken # 0
              THEN Await(r, Call("getAuthForSessionToken", r.className,
                                 LastCall(r).resp.sessionToken, EmptyInput,
                                 r.auth, NoArgs))
              ELSE Await(r, Call("runGet", r.className, LastCall(r).resp.objectId,
                                 EmptyInput, r.auth, NoArgs))
         [] LastCall(r).fn = "getAuthForSessionToken" ->
              Await([r EXCEPT !.auth = LastCall(r).resp.auth],
                    Call("runGet", r.className, r.calls[1].resp.objectId,
                         EmptyInput, LastCall(r).resp.auth, NoArgs))
         [] LastCall(r).fn = "runGet" ->
              Return(r, LastCall(r).resp.object, r.clientMutationId)

\* update.resolve
updateStart(ctx, className, schema, input) ==
  Bind(getObjectId(input), LAMBDA g :
    IF g.threw
    THEN Throw(Invocation("update", className, input, NoArgs, NoObject), MissingId)
    ELSE Bind(transformInput(g.input, schema, className), LAMBDA t :
           IF t.threw
           THEN Throw(Invocation("update", className, input, NoArgs, NoObject),
                      "TypeError")
           ELSE Await([Invocation("update", className, input, NoArgs, NoObject)
                         EXCEPT !.input = Delete(t.input, "clientMutationId"),
                                !.clientMutationId =
                                   Get(t.input, "clientMutationId"),
                                !.objectId = g.objectId],
                      Call("rest.update", className, g.objectId,
                           Delete(t.input, "clientMutationId"), ctx.auth,
                           NoArgs))))

\* update.resolve re-fetching whatever rest.update answered.
updateResume_IgnoreFailure(ctx, r) ==
  IF LastCall(r).fn = "rest.update"
  THEN Await(r, Call("runGet", r.className, r.objectId, EmptyInput, ctx.auth,
                     NoArgs))
  ELSE IF LastCall(r).status = "error" THEN Reject(r)
       ELSE Return(r, LastCall(r).resp.object, r.clientMutationId)

updateResume(ctx, r) ==
  IF LastCall(r).status = "error" THEN Reject(r)
  ELSE IF LastCall(r).fn = "rest.update"
       THEN Await(r, Call("runGet", r.className, r.objectId, EmptyInput,
                          ctx.auth, NoArgs))
       ELSE Return(r, LastCall(r).resp.object, r.clientMutationId)

\* destroy.resolve deleting before it fetches.
destroyStart_DeleteFirst(ctx, className, input) ==
  Bind(getObjectId(input), LAMBDA g :
    IF g.threw
    THEN Throw(Invocation("destroy", className, input, NoArgs, NoObject),
               MissingId)
    ELSE Await([Invocation("destroy", className, input, NoArgs, NoObject)
                  EXCEPT !.input = g.input,
                         !.clientMutationId = Get(g.input, "clientMutationId"),
                         !.objectId = g.objectId],
               Call("rest.del", className, g.objectId, EmptyInput, ctx.auth,
                    NoArgs)))

\* destroy.resolve
destroyStart(ctx, className, input) ==
  Bind(getObjectId(input), LAMBDA g :
    IF g.threw
    THEN Throw(Invocation("destroy", className, input, NoArgs, NoObject),
               MissingId)
    ELSE Await([Invocation("destroy", className, input, NoArgs, NoObject)
                  EXCEPT !.input = g.input,
                         !.clientMutationId = Get(g.input, "clientMutationId"),
                         !.objectId = g.objectId],
               Call("runGet", className, g.objectId, EmptyInput, ctx.auth,
                    NoArgs)))

destroyResume(ctx, r) ==
  IF LastCall(r).status = "error" THEN Reject(r)
  ELSE IF LastCall(r).fn = "runGet"
       THEN Await(r, Call("rest.del", r.className, r.objectId, EmptyInput,
                          ctx.auth, NoArgs))
       ELSE Return(r, r.calls[1].resp.object, r.clientMutationId)

----------------------------------------------------------------------------
(* The requests drawn *)

Input1(k1, v1) == (k1 :> v1)
Input2(k1, v1, k2, v2) == (k1 :> v1) @@ (k2 :> v2)
Input3(k1, v1, k2, v2, k3, v3) == (k1 :> v1) @@ (k2 :> v2) @@ (k3 :> v3)

Token == VStr(7)

CreateRequests ==
  { <<ClsA, Input2("name", VStr(1), "clientMutationId", Token)>>,
    <<ClsA, Input2("name", VStr(2), "b", VObj(1))>>,
    <<ClsA, Input1("b", VNull)>>,
    <<ClsUser, Input1("username", VStr(1))>> }

UpdateRequests ==
  { <<ClsA, Input1("name", VStr(2))>>,
    <<ClsA, Input3("objectId", VStr(1), "name", VStr(2), "clientMutationId", Token)>>,
    <<ClsA, Input2("id", VStr(getGloballyUniqueId(ClsA, 1)), "name", VStr(3))>>,
    <<ClsA, Input3("id", VStr(getGloballyUniqueId(ClsA, 1)), "objectId", VStr(1),
                   "name", VStr(2))>>,
    <<ClsA, Input2("id", VStr(getGloballyUniqueId(ClsB, 1)), "name", VStr(3))>>,
    <<ClsA, Input2("objectId", VStr(2), "name", VStr(3))>>,
    <<ClsA, Input2("objectId", VStr(1), "b", VNull)>> }

DestroyRequests ==
  { <<ClsA, Input1("clientMutationId", Token)>>,
    <<ClsA, Input2("objectId", VStr(1), "clientMutationId", Token)>>,
    <<ClsA, Input1("id", VStr(getGloballyUniqueId(ClsA, 1)))>> }

GetRequests == { <<ClsA, 1>>, <<ClsA, 2>> }

FindRequests == { <<ClsA, 0>>, <<ClsA, 500>> }

RelationRequests == { <<"as", 0>>, <<"as", 500>> }

\* The parent of the relation field B.as: an object of class B.
ParentB == [className |-> ClsB, objectId |-> 1, name |-> 0, version |-> 1]

ResultSizes == {0, 2, MaxRows}

----------------------------------------------------------------------------
(* The actions of request execution.  The schema is S1 throughout.          *)

Started(r) ==
  /\ Len(inv) < MaxInvocations
  /\ inv' = Append(inv, r)
  /\ UNCHANGED <<store, context, typeVars>>

StartGet(className, objectId) == Started(getStart(context, className, objectId))

StartFind(className, first) ==
  Started(findStart(context, className, [NoArgs EXCEPT !.first = first]))

StartRelation(fieldName, first) ==
  Started(relationStart(context, ParentB, [NoArgs EXCEPT !.first = first],
                        fieldName))

StartCreate(className, input) ==
  Started(createStart(context, className, "S1", input))

StartUpdate(className, input) ==
  Started(updateStart(context, className, "S1", input))

StartDestroy(className, input) ==
  Started(destroyStart(context, className, input))

Pending(i, fn) ==
  /\ inv[i].pc = "await"
  /\ LastCall(inv[i]).status = "pending"
  /\ LastCall(inv[i]).fn = fn

\* The code after the await, by resolver.
Continue(ctx, r) ==
  CASE r.op = "get" -> getResume(ctx, r)
    [] r.op = "find" -> findResume(ctx, r)
    [] r.op = "relation" -> relationResume(ctx, r)
    [] r.op = "create" -> createResume(ctx, r)
    [] r.op = "update" -> updateResume(ctx, r)
    [] r.op = "destroy" -> destroyResume(ctx, r)

\* create.resolve keeping the derived auth in context.auth instead of in its
\* own variable.
ContextAfter_SharedAuth(ctx, r) ==
  IF r.op = "create" /\ r.auth # "" THEN [ctx EXCEPT !.auth = r.auth] ELSE ctx

\* The request context after a continuation has run: `let { auth } = context`
\* copies the auth into a local, and no resolver assigns to context.
ContextAfter(ctx, r) == ctx

\* The pending call of invocation i settles and the resolver runs on to its
\* next await or to its end: the continuation touches nothing but the
\* invocation's own locals.
Settle(i, status, resp) ==
  /\ \E r \in {Continue(context,
                        [inv[i] EXCEPT !.calls[Len(inv[i].calls)].status = status,
                                       !.calls[Len(inv[i].calls)].resp = resp])} :
       /\ inv' = [inv EXCEPT ![i] = r]
       /\ context' = ContextAfter(context, r)
  /\ UNCHANGED typeVars

\* rest.create: stores the payload under a fresh objectId, or refuses it; a
\* created _User may come with a session token.
RestCreate(i) ==
  /\ Pending(i, "rest.create")
  /\ \/ /\ store' = Append(store,
                      [className |-> LastCall(inv[i]).className,
                       name |-> Get(LastCall(inv[i]).payload, "name").v,
                       exists |-> TRUE, version |-> 1])
        /\ \E token \in (IF LastCall(inv[i]).className = ClsUser
                         THEN {0, 1} ELSE {0}) :
             Settle(i, "ok", [NoResp EXCEPT !.objectId = Len(store) + 1,
                                            !.sessionToken = token])
     \/ /\ Settle(i, "error", [NoResp EXCEPT !.error = "ValidationError"])
        /\ UNCHANGED store

\* rest.update: writes the payload's fields into the object, NotFound if absent.
RestUpdate(i) ==
  /\ Pending(i, "rest.update")
  /\ LET c == LastCall(inv[i])
     IN IF Exists(store, c.className, c.objectId)
        THEN /\ store' = [store EXCEPT
                            ![c.objectId].name =
                               IF "name" \in DOMAIN c.payload
                               THEN c.payload["name"].v ELSE @,
                            ![c.objectId].version = @ + 1]
             /\ Settle(i, "ok", NoResp)
        ELSE /\ Settle(i, "error", [NoResp EXCEPT !.error = "NotFound"])
             /\ UNCHANGED store

\* rest.del: removes the object, NotFound if absent.  resp.object is what the
\* object was at that moment (kept to state the claims, not read by the code).
RestDel(i) ==
  /\ Pending(i, "rest.del")
  /\ LET c == LastCall(inv[i])
     IN IF Exists(store, c.className, c.objectId)
        THEN /\ store' = [store EXCEPT ![c.objectId].exists = FALSE,
                                       ![c.objectId].version = @ + 1]
             /\ Settle(i, "ok", [NoResp EXCEPT
                                   !.object = Snapshot(store, c.objectId)])
        ELSE /\ Settle(i, "error", [NoResp EXCEPT !.error = "NotFound"])
             /\ UNCHANGED store

\* runGet: the object as stored now, NotFound if absent.
RunGet(i) ==
  /\ Pending(i, "runGet")
  /\ LET c == LastCall(inv[i])
     IN IF Exists(store, c.className, c.objectId)
        THEN Settle(i, "ok", [NoResp EXCEPT !.object = Snapshot(store, c.objectId)])
        ELSE Settle(i, "error", [NoResp EXCEPT !.error = "NotFound"])
  /\ UNCHANGED store

\* The class a find reads: with a redirect marker, the target class of that
\* key of the class named in the call; the class named in the call otherwise.
FindClass(c) ==
  IF c.args.redirectClassNameForKey = "" THEN c.className
  ELSE TargetClassOf("S1", c.className, c.args.redirectClassNameForKey)

\* runFind: the rows the backend answers with, however many it has, each of
\* the class the find reads.
RunFind(i) ==
  /\ Pending(i, "runFind")
  /\ \E n \in ResultSizes :
       Settle(i, "ok",
              [NoResp EXCEPT !.rows =
                 [k \in 1..n |->
                    [className |-> FindClass(LastCall(inv[i])), objectId |-> k,
                     id |-> 0]]])
  /\ UNCHANGED store

\* getAuthForSessionToken: the auth of the session, or an invalid-session error.
GetAuthForSessionToken(i) ==
  /\ Pending(i, "getAuthForSessionToken")
  /\ \/ Settle(i, "ok", [NoResp EXCEPT !.auth = "session"])
     \/ Settle(i, "error", [NoResp EXCEPT !.error = "InvalidSession"])
  /\ UNCHANGED store

\* The backend already holds one object of class A.
ResolversInit ==
  /\ EmptyHeapInit
  /\ probe = NoProbe
  /\ store = << [className |-> ClsA, name |-> 1, exists |-> TRUE, version |-> 1] >>
  /\ inv = << >>
  /\ context = [auth |-> "client", config |-> "config"]

ResolversNext ==
  \/ \E q \in GetRequests : StartGet(q[1], q[2])
  \/ \E q \in FindRequests : StartFind(q[1], q[2])
  \/ \E q \in RelationRequests : StartRelation(q[1], q[2])
  \/ \E q \in CreateRequests : StartCreate(q[1], q[2])
  \/ \E q \in UpdateRequests : StartUpdate(q[1], q[2])
  \/ \E q \in DestroyRequests : StartDestroy(q[1], q[2])
  \/ \E i \in DOMAIN inv : RestCreate(i)
  \/ \E i \in DOMAIN inv : RestUpdate(i)
  \/ \E i \in DOMAIN inv : RestDel(i)
  \/ \E i \in DOMAIN inv : RunGet(i)
  \/ \E i \in DOMAIN inv : RunFind(i)
  \/ \E i \in DOMAIN inv : GetAuthForSessionToken(i)

SpecResolvers == ResolversInit /\ [][ResolversNext]_vars


----------------------------------------------------------------------------
(* Properties of schema compilation *)

ThunkConfigs == {"object", "query", "input", "update", "edge"}

SameCall(i, j) ==
  /\ calls[i].className = calls[j].className
  /\ calls[i].schema = calls[j].schema

\* C1 as stated: two loadClass calls for the same class name and schema
\* return the reference-equal bundle.
C1_SameBundle ==
  \A i, j \in DOMAIN calls : SameCall(i, j) => calls[i].ret = calls[j].ret

\* C1 as amended: two loadClass calls for the same class name and schema
\* return bundles whose six member types, ParseClass and display name are
\* identical by reference; the bundle object itself is built afresh by each
\* call.
C1_SameMemberTypes ==
  \A i, j \in DOMAIN calls :
    SameCall(i, j) =>
      LET a == bundles[calls[i].ret]
          b == bundles[calls[j].ret]
      IN /\ a.objectType = b.objectType
         /\ a.inputType = b.inputType
         /\ a.updateType = b.updateType
         /\ a.queryType = b.queryType
         /\ a.queryResultType = b.queryResultType
         /\ a.mutationResultType = b.mutationResultType
         /\ a.parseClass = b.parseClass
         /\ a.displayName = b.displayName

C1_Witness ==
  \E i, j \in DOMAIN calls : i # j /\ SameCall(i, j)

PointerFields(p) ==
  {f \in {SchemaFields(parseClasses[p].schema, parseClasses[p].className)[k] :
            k \in DOMAIN SchemaFields(parseClasses[p].schema,
                                      parseClasses[p].className)} :
     f.type = "Pointer"}

\* Every materialized object type lists, for each Pointer field of its class,
\* the cached object type of the target class.
C2_CrossRefs ==
  \A t \in DOMAIN types :
    (types[t].config = "object" /\ types[t].fields = "value") =>
      \A f \in PointerFields(types[t].owner) :
        /\ f.name \in DOMAIN types[t].map
        /\ cache[f.targetClass] # 0
        /\ types[t].map[f.name].type
             = Named(parseClasses[cache[f.targetClass]].objectType)

NewlyEvaluated ==
  {t \in DOMAIN types' :
     /\ types'[t].config \in ThunkConfigs
     /\ types'[t].fields # "thunk"
     /\ (t \in DOMAIN types => types[t].fields = "thunk")}

\* A step evaluates at most one field thunk, of a type that existed before
\* the step (its class is no longer under construction); a step that runs a
\* top-level loadClass evaluates none, and no step un-evaluates a thunk.
C2_NoReentry ==
  /\ Cardinality(NewlyEvaluated) <= 1
  /\ NewlyEvaluated \subseteq DOMAIN types
  /\ Len(calls') > Len(calls) => NewlyEvaluated = {}
  /\ \A t \in DOMAIN types : t \in DOMAIN types' /\ types'[t].owner = types[t].owner

\* C2: with A pointing to B and B pointing to A, loadClass never evaluates a
\* field thunk (so it cannot re-enter the builder for a class under
\* construction), and the materialized object types cross-reference each
\* other's cached object type.
C2_CycleSafe == [](C2_CrossRefs) /\ [][C2_NoReentry]_vars

C2_Witness ==
  \E a, b \in DOMAIN types :
    /\ types[a].config = "object" /\ types[a].fields = "value"
    /\ types[b].config = "object" /\ types[b].fields = "value"
    /\ parseClasses[types[a].owner].className = ClsA
    /\ parseClasses[types[b].owner].className = ClsB
    /\ types[a].map["b"].type = Named(b)
    /\ types[b].map["a"].type = Named(a)

ProbeResult(m) ==
  CASE m = "out" -> probe.out [] m = "in" -> probe.in [] m = "query" -> probe.query

\* C7: a field named objectId or id is mapped to a non-nullable ID by the
\* output, input and filter mappers, whatever its declared kind.
C7_IdAlwaysNonNullID ==
  probe.fieldName \in {"objectId", "id"} =>
    \A m \in probe.applied : ProbeResult(m).type = NonNullID

Degenerate(t) ==
  \/ types[t].fields = "undefined"
  \/ types[t].fields = "value" /\ DOMAIN types[t].map = {}

\* C8: for a class absent from the schema, each of the object, filter, add
\* and update types yields a degenerate (empty or missing) field set when its
\* thunk is evaluated, and the thunk does not throw.
C8_MissingClassDegenerate ==
  \A t \in DOMAIN types :
    (/\ types[t].config \in {"object", "query", "input", "update"}
     /\ ~parseClasses[types[t].owner].hasClass
     /\ types[t].fields # "thunk") => Degenerate(t)

\* C9: the bundle a loadClass(C, S) call returns is built from S: its
\* ParseClass references S and S[C].
C9_BundleFromCallSchema ==
  \A i \in DOMAIN calls :
    LET p == parseClasses[bundles[calls[i].ret].parseClass]
    IN /\ p.schema = calls[i].schema
       /\ p.hasClass = SchemaHas(calls[i].schema, calls[i].className)

----------------------------------------------------------------------------
(* Properties of request execution *)

NoIdentifier(r) ==
  "id" \notin DOMAIN r.input0 /\ "objectId" \notin DOMAIN r.input0

\* C3: update or destroy called with neither id nor objectId fails with the
\* missing-identifier error and has made no storage call.
C3_MissingIdentifier ==
  \A i \in DOMAIN inv :
    (inv[i].op \in {"update", "destroy"} /\ NoIdentifier(inv[i])) =>
      /\ inv[i].pc = "failed"
      /\ inv[i].out.status = "error"
      /\ inv[i].out.error = MissingId
      /\ inv[i].calls = << >>

C3_Witness ==
  \E i, j \in DOMAIN inv :
    /\ inv[i].op = "update" /\ NoIdentifier(inv[i])
    /\ inv[j].op = "destroy" /\ NoIdentifier(inv[j])

DestroyOrder(r) ==
  \A k \in DOMAIN r.calls :
    r.calls[k].fn = "rest.del" =>
      k = 2 /\ r.calls[1].fn = "runGet" /\ r.calls[1].status = "ok"

DestroyDone(r) ==
  /\ Len(r.calls) = 2
  /\ r.calls[2].fn = "rest.del" /\ r.calls[2].status = "ok"
  /\ r.out.status = "ok"
  /\ r.out.object = r.calls[1].resp.object
  /\ r.out.clientMutationId = Get(r.input0, "clientMutationId")
  /\ ~Exists(store, r.className, r.objectId)

\* C4 as stated: destroy fetches, then deletes, and answers with the object's
\* field values as they were immediately before the deletion, and the object
\* is gone afterwards.
C4_ReturnsPreImage ==
  \A i \in DOMAIN inv :
    (inv[i].op = "destroy" /\ inv[i].pc = "done") =>
      /\ DestroyOrder(inv[i])
      /\ DestroyDone(inv[i])
      /\ inv[i].out.object.name = inv[i].calls[2].resp.object.name

C4_FetchThenDelete ==
  \A i \in DOMAIN inv :
    inv[i].op = "destroy" =>
      /\ DestroyOrder(inv[i])
      /\ inv[i].pc = "done" =>
           /\ DestroyDone(inv[i])
           /\ (inv[i].calls[1].resp.object.version
                 = inv[i].calls[2].resp.object.version)
                => inv[i].out.object = inv[i].calls[2].resp.object

C4_GetAfterDestroy ==
  \A i, j \in DOMAIN inv :
    (/\ inv[i].op = "destroy" /\ inv[i].pc = "done"
     /\ Pending(j, "runGet")
     /\ LastCall(inv[j]).className = inv[i].className
     /\ LastCall(inv[j]).objectId = inv[i].objectId
     /\ inv'[j] # inv[j]) =>
      /\ inv'[j].calls[Len(inv[j].calls)].status = "error"
      /\ inv'[j].calls[Len(inv[j].calls)].resp.error = "NotFound"

\* C4 as amended: destroy fetches the object before it issues the delete and
\* answers with that fetched snapshot and the echoed clientMutationId; the
\* snapshot is the object as it was immediately before the deletion when no
\* write to the object landed between the fetch and the delete; once a
\* destroy has succeeded, a get of the same id fails with NotFound.
C4_DestroySnapshot == [](C4_FetchThenDelete) /\ [][C4_GetAfterDestroy]_vars

C4_Witness ==
  \E i, j \in DOMAIN inv :
    /\ inv[i].op = "destroy" /\ inv[i].pc = "done"
    /\ inv[i].out.object.name = 1
    /\ inv[j].op = "get" /\ inv[j].objectId = inv[i].objectId
    /\ inv[j].pc = "failed" /\ inv[j].out.error = "NotFound"

\* C5: within a resolver a call is issued only when every earlier call has
\* completed successfully: create re-fetches only after rest.create
\* succeeded, update only after rest.update succeeded, and destroy deletes
\* only after its runGet succeeded.
C5_Sequential ==
  \A i \in DOMAIN inv :
    LET r == inv[i]
    IN /\ \A k \in DOMAIN r.calls : k < Len(r.calls) => r.calls[k].status = "ok"
       /\ \A k \in DOMAIN r.calls :
            /\ (r.op = "create" /\ r.calls[k].fn = "runGet") =>
                 k > 1 /\ r.calls[1].fn = "rest.create" /\ r.calls[1].status = "ok"
            /\ (r.op = "update" /\ r.calls[k].fn = "runGet") =>
                 k = 2 /\ r.calls[1].fn = "rest.update" /\ r.calls[1].status = "ok"
            /\ (r.op = "destroy" /\ r.calls[k].fn = "rest.del") =>
                 k = 2 /\ r.calls[1].fn = "runGet" /\ r.calls[1].status = "ok"

C5_Witness ==
  \E i, j \in DOMAIN inv :
    /\ inv[i].op = "update" /\ inv[i].pc = "failed"
    /\ Len(inv[i].calls) = 1 /\ inv[i].calls[1].status = "error"
    /\ inv[j].op = "create" /\ inv[j].pc = "failed"
    /\ Len(inv[j].calls) = 1 /\ inv[j].calls[1].status = "error"

\* C6: create answers with the object a get by the new object's id returned
\* after the create; when no other write has touched that object, it is what
\* a direct get returns now and its name is the name of the input.
C6_CreateReadBack ==
  \A i \in DOMAIN inv :
    (inv[i].op = "create" /\ inv[i].pc = "done") =>
      LET r == inv[i]
          id == r.calls[1].resp.objectId
      IN /\ Len(r.calls) >= 2
         /\ r.calls[1].fn = "rest.create"
         /\ LastCall(r).fn = "runGet"
         /\ LastCall(r).objectId = id
         /\ LastCall(r).className = r.className
         /\ r.out.object = LastCall(r).resp.object
         /\ (store[id].version = 1) =>
              /\ Exists(store, r.className, id)
              /\ r.out.object = Snapshot(store, id)
              /\ "name" \in DOMAIN r.input0 =>
                   r.out.object.name = r.input0["name"].v

C6_Witness ==
  \E i \in DOMAIN inv :
    /\ inv[i].op = "create" /\ inv[i].pc = "done"
    /\ "name" \in DOMAIN inv[i].input0
    /\ store[inv[i].calls[1].resp.objectId].version = 1
    /\ inv[i].out.object.name = 2

\* C10: the find resolver and the relation-field resolver hand the fixed cap
\* 100 to the connection builder and answer with at most 100 nodes, whatever
\* page size was asked for.
C10_PageCapped ==
  \A i \in DOMAIN inv :
    (inv[i].op \in {"find", "relation"} /\ inv[i].pc = "done") =>
      /\ inv[i].out.cap = 100
      /\ Len(inv[i].out.nodes) <= 100

C10_Witness ==
  \E i, j \in DOMAIN inv :
    /\ inv[i].op = "find" /\ inv[i].pc = "done"
    /\ inv[i].args.first = 500
    /\ Len(inv[i].calls[1].resp.rows) > 100
    /\ Len(inv[i].out.nodes) = 100
    /\ inv[j].op = "relation" /\ inv[j].pc = "done"
    /\ inv[j].args.first = 500
    /\ Len(inv[j].calls[1].resp.rows) > 100
    /\ Len(inv[j].out.nodes) = 100

\* C11: the payload handed to rest.create and rest.update never holds the
\* clientMutationId key, and the result of create, update and destroy carries
\* the clientMutationId of the client's input (undefined when it gave none).
C11_TokenStrippedAndEchoed ==
  \A i \in DOMAIN inv :
    /\ \A k \in DOMAIN inv[i].calls :
         inv[i].calls[k].fn \in {"rest.create", "rest.update"} =>
           "clientMutationId" \notin DOMAIN inv[i].calls[k].payload
    /\ (inv[i].op \in {"create", "update", "destroy"} /\ inv[i].pc = "done") =>
         inv[i].out.clientMutationId = Get(inv[i].input0, "clientMutationId")

C11_Witness ==
  \E i, j \in DOMAIN inv :
    /\ inv[i].op = "create" /\ inv[i].pc = "done"
    /\ "clientMutationId" \in DOMAIN inv[i].input0
    /\ inv[i].out.clientMutationId = Token
    /\ inv[i].calls[1].fn = "rest.create"
    /\ inv[j].op = "update" /\ inv[j].pc = "done"
    /\ "clientMutationId" \notin DOMAIN inv[j].input0
    /\ inv[j].out.clientMutationId = NoVal

\* C12: the relation resolver of field fieldName on a parent asks runFind
\* for $relatedTo {object: Pointer(parent.className, parent.objectId), key:
\* fieldName} with redirectClassNameForKey = fieldName, under the parent's
\* class name so that the marker makes the find read the field's target
\* class; every node it returns has as id the global id of the node's own
\* className and objectId, which decodes to the target class and that
\* objectId.
C12_RelationConnection ==
  \A i \in DOMAIN inv :
    inv[i].op = "relation" =>
      /\ Len(inv[i].calls) = 1
      /\ inv[i].calls[1].fn = "runFind"
      /\ inv[i].calls[1].className = inv[i].parent.className
      /\ inv[i].calls[1].args.relatedTo
           = Pointer(inv[i].parent.className, inv[i].parent.objectId)
      /\ inv[i].calls[1].args.key = "as"
      /\ inv[i].calls[1].args.redirectClassNameForKey = "as"
      /\ FindClass(inv[i].calls[1]) = ClsA
      /\ inv[i].pc = "done" =>
           \A k \in DOMAIN inv[i].out.nodes :
             /\ inv[i].out.nodes[k] = [inv[i].calls[1].resp.rows[k] EXCEPT
                  !.id = getGloballyUniqueId(inv[i].out.nodes[k].className,
                                             inv[i].out.nodes[k].objectId)]
             /\ parseID(inv[i].out.nodes[k].id).className = ClsA
             /\ parseID(inv[i].out.nodes[k].id).objectId
                  = inv[i].out.nodes[k].objectId

C12_Witness ==
  \E i \in DOMAIN inv :
    /\ inv[i].op = "relation" /\ inv[i].pc = "done"
    /\ inv[i].parent.className = ClsB
    /\ Len(inv[i].out.nodes) = 2
    /\ inv[i].out.nodes[2].id = getGloballyUniqueId(ClsA, 2)

\* C13: over any sequence of loadClass calls (by callers and by field
\* thunks) no two type objects constructed carry the same type name.
C13_OneTypePerName ==
  \A i, j \in DOMAIN types : types[i].name = types[j].name => i = j

\* The edge type inside the query-result type t.
EdgeOf(t) == types[t].map["edges"].type.ref

\* C14: the ParseClass factory has run once per class name loaded; every
\* loadClass call for a class name returns the six member types the first
\* such call returned; the query-result type's node type (of nodes and of
\* the edge type) and the mutation-result type's object field are that same
\* object type.
C14_OneFactoryConsistentTypes ==
  /\ \A p, q \in DOMAIN parseClasses :
       parseClasses[p].className = parseClasses[q].className => p = q
  /\ \A i \in DOMAIN bundles :
       /\ cache[bundles[i].className] = bundles[i].parseClass
       /\ parseClasses[bundles[i].parseClass].className = bundles[i].className
       /\ types[bundles[i].queryResultType].map["nodes"].type
            = ListOf(bundles[i].objectType)
       /\ types[EdgeOf(bundles[i].queryResultType)].owner = bundles[i].parseClass
       /\ types[EdgeOf(bundles[i].queryResultType)].fields = "value" =>
            types[EdgeOf(bundles[i].queryResultType)].map["node"].type
              = Named(bundles[i].objectType)
       /\ types[bundles[i].mutationResultType].map["object"].type
            = Named(bundles[i].objectType)
  /\ \A i, j \in DOMAIN bundles :
       bundles[i].className = bundles[j].className =>
         /\ bundles[i].objectType = bundles[j].objectType
         /\ bundles[i].inputType = bundles[j].inputType
         /\ bundles[i].updateType = bundles[j].updateType
         /\ bundles[i].queryType = bundles[j].queryType
         /\ bundles[i].queryResultType = bundles[j].queryResultType
         /\ bundles[i].mutationResultType = bundles[j].mutationResultType

C14_Witness ==
  \E i, j \in DOMAIN bundles :
    /\ i < j
    /\ bundles[i].className = ClsA /\ bundles[j].className = ClsA
    /\ bundles[i].schema # bundles[j].schema
    /\ types[EdgeOf(bundles[j].queryResultType)].fields = "value"
    /\ Len(parseClasses) = 1

\* The payload of a rest.create / rest.update call of invocation r: every
\* Pointer or GeoPoint key carries that tag, every other key the input's value.
Normalized(r, payload) ==
  \A key \in DOMAIN payload :
    IF FieldTypeOf("S1", r.className, key) \in {"Pointer", "GeoPoint"}
    THEN payload[key] = [r.input0[key] EXCEPT
                           !.type = FieldTypeOf("S1", r.className, key)]
    ELSE payload[key] = r.input0[key]

\* C15: create and update forward every Pointer (GeoPoint) key tagged
\* 'Pointer' ('GeoPoint') and every other key unchanged, and the
\* normalization raises no error, a null Pointer or GeoPoint value included.
C15_NormalizesWithoutError ==
  \A i \in DOMAIN inv :
    inv[i].op \in {"create", "update"} =>
      /\ inv[i].out.error # "TypeError"
      /\ \A k \in DOMAIN inv[i].calls :
           inv[i].calls[k].fn \in {"rest.create", "rest.update"} =>
             Normalized(inv[i], inv[i].calls[k].payload)

\* C16: the payload update hands to rest.update holds neither the id key nor
\* the objectId key, whichever identifiers the input carried.
C16_NoIdentifierInPayload ==
  \A i \in DOMAIN inv :
    inv[i].op = "update" =>
      \A k \in DOMAIN inv[i].calls :
        inv[i].calls[k].fn = "rest.update" =>
          /\ "id" \notin DOMAIN inv[i].calls[k].payload
          /\ "objectId" \notin DOMAIN inv[i].calls[k].payload

\* The invocation selects its object by the global id of its input.
ByGlobalId(r) ==
  /\ r.op \in {"update", "destroy"}
  /\ ~Falsy(Get(r.input0, "id"))
  /\ Falsy(Get(r.input0, "objectId"))

\* C17: an update or destroy of class C given a global id issues its runGet,
\* rest.update and rest.del calls on class C with the local id of a global id
\* that encodes class C; a global id of another class causes no such call.
C17_GlobalIdClassChecked ==
  \A i \in DOMAIN inv :
    ByGlobalId(inv[i]) =>
      \A k \in DOMAIN inv[i].calls :
        inv[i].calls[k].fn \in {"runGet", "rest.update", "rest.del"} =>
          /\ inv[i].calls[k].className = inv[i].className
          /\ inv[i].calls[k].objectId = parseID(inv[i].input0["id"].v).objectId
          /\ parseID(inv[i].input0["id"].v).className = inv[i].className

\* C18: only a create of _User whose rest.create answered with a session
\* token derives an authorization context, and it always does; the derived
\* context is handed to that create's own re-fetch only; the request context
\* keeps its auth and config, and every other call carries the request's auth.
C18_FreshAuthIsLocal ==
  /\ context = [auth |-> "client", config |-> "config"]
  /\ \A i \in DOMAIN inv : \A k \in DOMAIN inv[i].calls :
       LET r == inv[i]
           c == inv[i].calls[k]
           issued == r.op = "create" /\ r.className = ClsUser /\ k > 1
                       /\ r.calls[1].resp.sessionToken # 0
       IN /\ c.fn = "getAuthForSessionToken" => (issued /\ k = 2)
          /\ (issued /\ k = 2) => c.fn = "getAuthForSessionToken"
          /\ c.auth = IF issued /\ k = 3 THEN r.calls[2].resp.auth ELSE "client"

C18_Witness ==
  \E i, j \in DOMAIN inv :
    /\ i < j
    /\ inv[i].op = "create" /\ inv[i].pc = "done"
    /\ Len(inv[i].calls) = 3
    /\ inv[i].calls[3].fn = "runGet" /\ inv[i].calls[3].auth = "session"
    /\ inv[j].op = "update" /\ inv[j].pc = "done"
    /\ Len(inv[j].calls) = 2
    /\ inv[j].calls[2].fn = "runGet" /\ inv[j].calls[2].auth = "client"

\* The relation fields materialized so far: <<type, field name>>.
RelationFields ==
  {tf \in (DOMAIN types) \X {"as", "more"} :
     /\ types[tf[1]].fields = "value"
     /\ tf[2] \in DOMAIN types[tf[1]].map
     /\ types[tf[1]].map[tf[2]].resolve = "relatedTo"}

\* C19: whatever relation fields have been materialized, before or after a
\* caller's loadClass, the find descriptor of every bundle handed to a caller
\* still has the plain class find as its resolver; each relation field's
\* descriptor carries the $relatedTo resolver for its own field name, on a
\* find descriptor shared with no caller and with no other relation field.
C19_RootFindUntouched ==
  /\ \A i \in DOMAIN calls :
       /\ bundles[calls[i].ret].find.resolve = "find"
       /\ bundles[calls[i].ret].find.key = ""
       /\ bundles[calls[i].ret].find.type = bundles[calls[i].ret].queryResultType
  /\ \A tf \in RelationFields :
       LET d == types[tf[1]].map[tf[2]]
       IN /\ d.key = tf[2]
          /\ bundles[d.bundle].find.resolve = "relatedTo"
          /\ bundles[d.bundle].find.key = tf[2]
          /\ bundles[d.bundle].className = ClsA
          /\ \A i \in DOMAIN calls : calls[i].ret # d.bundle
  /\ \A tf, ug \in RelationFields :
       types[tf[1]].map[tf[2]].bundle = types[ug[1]].map[ug[2]].bundle => tf = ug

C19_Witness ==
  /\ \E i, j \in DOMAIN calls :
       /\ i < j
       /\ calls[i].className = ClsA /\ calls[j].className = ClsB
  /\ \E t \in DOMAIN types : {<<t, "as">>, <<t, "more">>} \subseteq RelationFields

====
